---- MODULE Spec2Model ----
(***************************************************************************)
(* Model of the Cainhurst frame indexing and semantic retrieval pipeline:  *)
(*   FrameExtractor.extract_frames_from_video / process_all_videos         *)
(*   (app/services/extractor.py), index_frames (scripts/process_videos.py) *)
(*   and SearchService (app/services/search.py).                           *)
(*                                                                         *)
(* Conventions.  A Python optional argument is a sequence: << >> is None   *)
(* and <<n>> is the value n.  Rates are integers (frames per second).      *)
(* A frame file name "<stem>_frame_<seq:05d>.jpg" is the pair <<stem,seq>>;*)
(* the format is injective in (stem, seq), so is the pair.  A uuid4 is a   *)
(* fresh natural number.  A timestamp frame_count / video_fps is the pair  *)
(* <<frame_count, video_fps>>.                                             *)
(***************************************************************************)
EXTENDS Integers, Sequences, FiniteSets, TLC

VARIABLES
    \* ---- one call of extract_frames_from_video --------------------------
    epc,               \* position in the call
    video_path,        \* the video file the call is about
    frames_per_second, \* argument (optional)
    max_frames,        \* argument (optional)
    clip_model,        \* TRUE iff self.clip_model is not None
    frame_interval,
    frames_to_extract,
    frame_count,
    processed_count,
    frame_metadata,    \* list of records built so far
    description,       \* what _generate_frame_description returned for the last saved frame
    uuid_next,         \* source of fresh uuid4 values
    frames_dir,        \* image files on disk: filename -> id of the record that wrote it last
    \* ---- one run of process_all_videos ----------------------------------
    bpc,               \* position in the run
    videos_dir,        \* the files of the videos directory
    video_files,       \* list built from the globs
    vidx,              \* position of the for loop in video_files (1-based)
    all_metadata,      \* dict id -> record
    dumped,            \* number of entries json.dump has written so far
    \* ---- the metadata snapshot file metadata.json -----------------------
    metadata_json,
    prior_json,        \* the snapshot as it was when the run started
    \* ---- SearchService --------------------------------------------------
    spc,               \* "new", "ready" (constructed) or "failed" (constructor raised)
    svc_frame_metadata,\* self.frame_metadata
    limit,             \* argument of the last search
    hits,              \* what collection.query returned to the last search
    frame_results,     \* what the last search returned
    response,          \* the SearchResponse of the request being answered
    \* ---- the vector collection (ChromaDB) -------------------------------
    collection,
    \* ---- index_frames ---------------------------------------------------
    ipc,               \* position in the run
    metadata,          \* argument: dict id -> record
    recreate,          \* args.recreate
    ids, documents, metadatas,
    batch_i,           \* i of the batch loop
    found_stale,       \* history: the run found a collection with an entry the
                       \* mapping lacks and an entry that differs from the mapping's
    found_changed      \* history: the run found an entry that differs from the mapping's

evars == <<epc, video_path, frames_per_second, max_frames, clip_model,
           frame_interval, frames_to_extract, frame_count, processed_count,
           frame_metadata, description, uuid_next, frames_dir>>
bvars == <<bpc, videos_dir, video_files, vidx, all_metadata, dumped>>
fvars == <<metadata_json, prior_json>>
svars == <<spc, svc_frame_metadata, limit, hits, frame_results, response>>
ivars == <<ipc, metadata, recreate, ids, documents, metadatas, batch_i, found_stale,
          found_changed>>

vars == <<evars, bvars, fvars, svars, collection, ivars>>

\* everything but the state of the extraction call
notExtract == <<bvars, fvars, svars, collection, ivars>>

----------------------------------------------------------------------------
\* Bounds of the model
MaxRate   == 3     \* native and target rates range over 0..MaxRate
MaxStream == 4     \* decodable and reported frame counts range over 0..MaxStream
MaxCap    == 2     \* max_frames ranges over None, 0..MaxCap

\* settings.FRAMES_PER_SECOND
FRAMES_PER_SECOND == 1

None == << >>
Some(x) == <<x>>
\* Python truthiness of an optional number: None and 0 are falsy
Truthy(opt) == opt # None /\ opt[1] # 0

Min(a, b) == IF a <= b THEN a ELSE b

Captions == {"Ember talking"}

\* A video file: name = stem + ext; openable = cap.isOpened();
\* fps = CAP_PROP_FPS; total = CAP_PROP_FRAME_COUNT as reported by the
\* container; nframes = number of frames cap.read() delivers before ret is False.
VideoFile(stem, ext, openable, fps, total, nframes) ==
    [stem |-> stem, ext |-> ext, openable |-> openable,
     fps |-> fps, total |-> total, nframes |-> nframes]

NoFile == << >>

----------------------------------------------------------------------------
\* extract_frames_from_video

\* fps = frames_per_second or settings.FRAMES_PER_SECOND
TargetFps(fpsArg) == IF Truthy(fpsArg) THEN fpsArg[1] ELSE FRAMES_PER_SECOND

\* frame_interval = int(video_fps / fps); if frame_interval < 1: frame_interval = 1
FrameInterval(video_fps, fps) ==
    LET q == video_fps \div fps IN IF q < 1 THEN 1 ELSE q

\* frames_to_extract
FramesToExtract(total_frames, maxFrames, interval) ==
    IF Truthy(maxFrames) THEN Min(total_frames, maxFrames[1] * interval)
    ELSE total_frames

\* cap = cv2.VideoCapture(...); not cap.isOpened() -> raise ValueError
OpenFail ==
    /\ epc = "call"
    /\ ~video_path.openable
    /\ epc' = "raised"
    /\ UNCHANGED <<video_path, frames_per_second, max_frames, clip_model,
                   frame_interval, frames_to_extract, frame_count,
                   processed_count, frame_metadata, description, uuid_next, frames_dir>>
    /\ UNCHANGED notExtract

\* the video opens: properties read, interval and limit computed, counters reset
OpenOk ==
    /\ epc = "call"
    /\ video_path.openable
    /\ frame_interval' = FrameInterval(video_path.fps, TargetFps(frames_per_second))
    /\ frames_to_extract' = FramesToExtract(video_path.total, max_frames, frame_interval')
    /\ frame_metadata' = << >>
    /\ frame_count' = 0
    /\ processed_count' = 0
    /\ epc' = "loop"
    /\ UNCHANGED <<video_path, frames_per_second, max_frames, clip_model,
                   description, uuid_next, frames_dir>>
    /\ UNCHANGED notExtract

\* while frame_count < frames_to_extract: condition false
LoopExit ==
    /\ epc = "loop"
    /\ ~(frame_count < frames_to_extract)
    /\ epc' = "release"
    /\ UNCHANGED <<video_path, frames_per_second, max_frames, clip_model,
                   frame_interval, frames_to_extract, frame_count,
                   processed_count, frame_metadata, description, uuid_next, frames_dir>>
    /\ UNCHANGED notExtract

\* ret, frame = cap.read(): the cap has delivered frame_count frames so far
ReadOk == frame_count < video_path.nframes

\* if not ret: break
ReadFail ==
    /\ epc = "loop"
    /\ frame_count < frames_to_extract
    /\ ~ReadOk
    /\ epc' = "release"
    /\ UNCHANGED <<video_path, frames_per_second, max_frames, clip_model,
                   frame_interval, frames_to_extract, frame_count,
                   processed_count, frame_metadata, description, uuid_next, frames_dir>>
    /\ UNCHANGED notExtract

\* a decoded frame that is not at a multiple of the interval
SkipFrame ==
    /\ epc = "loop"
    /\ frame_count < frames_to_extract
    /\ ReadOk
    /\ frame_count % frame_interval # 0
    /\ frame_count' = frame_count + 1
    /\ UNCHANGED <<epc, video_path, frames_per_second, max_frames, clip_model,
                   frame_interval, frames_to_extract, processed_count,
                   frame_metadata, description, uuid_next, frames_dir>>
    /\ UNCHANGED notExtract

\* frame_filename = f"{stem}_frame_{processed_count:05d}.jpg"
FrameFilename(stem, seq) == <<stem, seq>>

VideoFilename(v) == <<v.stem, v.ext>>

\* cv2.imwrite(frame_path, frame): creates or overwrites the file
ImWrite(dir, filename, id) ==
    [f \in DOMAIN dir \cup {filename} |-> IF f = filename THEN id ELSE dir[f]]

\* the frame number counts the selected frames only, not the skipped ones
BaseMetadata_CountSelected(id, v, seq, fc) ==
    [id |-> id, filename |-> FrameFilename(v.stem, seq),
     video_filename |-> VideoFilename(v), frame_number |-> seq,
     timestamp |-> <<fc, v.fps>>]

\* frame_metadata.append({"id": ..., "filename": ..., "video_filename": ...,
\*                        "frame_number": frame_count, "timestamp": frame_count / video_fps})
BaseMetadata(id, v, seq, fc) ==
    [id |-> id, filename |-> FrameFilename(v.stem, seq),
     video_filename |-> VideoFilename(v), frame_number |-> fc,
     timestamp |-> <<fc, v.fps>>]

WithDescription(m, d) ==
    [k \in DOMAIN m \cup {"description"} |-> IF k = "description" THEN d ELSE m[k]]

\* if max_frames and processed_count >= max_frames: break
CapReached(maxFrames, processed) == Truthy(maxFrames) /\ processed >= maxFrames[1]

\* the description is kept although captioning gave none: an empty one is stored
FrameRecord_EmptyCaption(m, clip, desc) ==
    IF clip /\ desc # None THEN WithDescription(m, desc[1]) ELSE WithDescription(m, "")

\* if self.clip_model is not None: description = ...; if description: metadata["description"] = description
FrameRecord(m, clip, desc) ==
    IF clip /\ desc # None THEN WithDescription(m, desc[1]) ELSE m

\* the outcomes of _generate_frame_description: a description, or None when
\* anything in it raised; without a model it is not called
CaptionOutcomes(clip) == IF clip THEN {None} \cup {Some(c) : c \in Captions} ELSE {None}

\* a decoded frame at a multiple of the interval is saved and recorded
SelectFrame ==
    /\ epc = "loop"
    /\ frame_count < frames_to_extract
    /\ ReadOk
    /\ frame_count % frame_interval = 0
    /\ video_path.fps # 0
    /\ \E desc \in CaptionOutcomes(clip_model) :
         /\ description' = desc
         /\ frame_metadata' =
               Append(frame_metadata,
                      FrameRecord(BaseMetadata(uuid_next, video_path, processed_count, frame_count),
                                  clip_model, desc))
    /\ frames_dir' = ImWrite(frames_dir, FrameFilename(video_path.stem, processed_count), uuid_next)
    /\ uuid_next' = uuid_next + 1
    /\ processed_count' = processed_count + 1
    /\ IF CapReached(max_frames, processed_count')
         THEN epc' = "release" /\ frame_count' = frame_count
         ELSE epc' = "loop" /\ frame_count' = frame_count + 1
    /\ UNCHANGED <<video_path, frames_per_second, max_frames, clip_model,
                   frame_interval, frames_to_extract>>
    /\ UNCHANGED notExtract

\* "timestamp": frame_count / video_fps with video_fps = 0 raises
\* ZeroDivisionError after the image was written
SelectRaise ==
    /\ epc = "loop"
    /\ frame_count < frames_to_extract
    /\ ReadOk
    /\ frame_count % frame_interval = 0
    /\ video_path.fps = 0
    /\ frames_dir' = ImWrite(frames_dir, FrameFilename(video_path.stem, processed_count), uuid_next)
    /\ uuid_next' = uuid_next + 1
    /\ epc' = "raised"
    /\ UNCHANGED <<video_path, frames_per_second, max_frames, clip_model,
                   frame_interval, frames_to_extract, frame_count,
                   processed_count, frame_metadata, description>>
    /\ UNCHANGED notExtract

\* cap.release(); return frame_metadata
Release ==
    /\ epc = "release"
    /\ epc' = "returned"
    /\ UNCHANGED <<video_path, frames_per_second, max_frames, clip_model,
                   frame_interval, frames_to_extract, frame_count,
                   processed_count, frame_metadata, description, uuid_next, frames_dir>>
    /\ UNCHANGED notExtract

----------------------------------------------------------------------------
\* Values of the parts of the state a specification does not use

NoSnapshot == [exists |-> FALSE, body |-> << >>, closed |-> FALSE]
NoCollection == [exists |-> FALSE, entries |-> << >>]
NoResponse == << >>

BatchIdle ==
    /\ bpc = "idle" /\ videos_dir = {} /\ video_files = << >> /\ vidx = 0
    /\ all_metadata = << >> /\ dumped = 0

SnapshotIdle == metadata_json = NoSnapshot /\ prior_json = NoSnapshot

ServiceIdle ==
    /\ spc = "idle" /\ svc_frame_metadata = << >> /\ limit = 0
    /\ hits = << >> /\ frame_results = << >> /\ response = NoResponse
    /\ collection = NoCollection

IndexIdle ==
    /\ ipc = "idle" /\ metadata = << >> /\ recreate = FALSE
    /\ ids = << >> /\ documents = << >> /\ metadatas = << >>
    /\ batch_i = 0 /\ found_stale = FALSE /\ found_changed = FALSE

ExtractIdle ==
    /\ epc = "idle" /\ video_path = NoFile /\ frames_per_second = None
    /\ max_frames = None /\ frame_interval = 0 /\ frames_to_extract = 0
    /\ frame_count = 0 /\ processed_count = 0 /\ frame_metadata = << >>
    /\ description = None

----------------------------------------------------------------------------
\* One direct call of extract_frames_from_video with arbitrary arguments

\* self.clip_model is set iff CLIP was imported, captioning is enabled and
\* clip.load did not raise
ClipLoaded(available, enabled, loaded) == available /\ enabled /\ loaded

ClipModels == {ClipLoaded(a, e, l) : a \in BOOLEAN, e \in BOOLEAN, l \in BOOLEAN}

OptRates == {None} \cup {Some(r) : r \in 0..MaxRate}
OptCaps  == {None} \cup {Some(n) : n \in 0..MaxCap}

InitSampler ==
    /\ epc = "call"
    /\ \E o \in BOOLEAN, r \in 0..MaxRate, t \in 0..MaxStream, n \in 0..MaxStream :
         video_path = VideoFile("a", ".mp4", o, r, t, n)
    /\ frames_per_second \in OptRates
    /\ max_frames \in OptCaps
    /\ clip_model \in ClipModels
    /\ frame_interval = 0
    /\ frames_to_extract = 0
    /\ frame_count = 0
    /\ processed_count = 0
    /\ frame_metadata = << >>
    /\ description = None
    /\ uuid_next = 1
    /\ frames_dir = << >>
    /\ BatchIdle
    /\ SnapshotIdle
    /\ ServiceIdle
    /\ IndexIdle

NextSampler ==
    \/ OpenFail \/ OpenOk \/ LoopExit \/ ReadFail \/ SkipFrame
    \/ SelectFrame \/ SelectRaise \/ Release

SpecSampler == InitSampler /\ [][NextSampler]_vars

----------------------------------------------------------------------------
\* process_all_videos, and the snapshot file it writes

\* for ext in ['.mp4', '.avi', '.mov', '.mkv']
VideoExts == <<".mp4", ".avi", ".mov", ".mkv">>

\* the lists that enumerate the set S once each (a glob's result, in any order)
Perms(S) ==
    {p \in [1..Cardinality(S) -> S] : \A i, j \in 1..Cardinality(S) : p[i] = p[j] => i = j}

\* self.videos_dir.glob(f'*{ext}')
GlobExt(dir, ext) == Perms({f \in dir : f.ext = ext})

\* the lists video_files can be after the four globs
GlobLists(dir) ==
    {p1 \o p2 \o p3 \o p4 : p1 \in GlobExt(dir, VideoExts[1]), p2 \in GlobExt(dir, VideoExts[2]),
                            p3 \in GlobExt(dir, VideoExts[3]), p4 \in GlobExt(dir, VideoExts[4])}

\* not in an extraction call, not writing the snapshot
batchRest == <<fvars, svars, collection, ivars>>

\* if not video_files: raise ValueError
GlobEmpty ==
    /\ bpc = "start"
    /\ GlobLists(videos_dir) = {<< >>}
    /\ bpc' = "raised"
    /\ UNCHANGED <<videos_dir, video_files, vidx, all_metadata, dumped>>
    /\ UNCHANGED <<evars, batchRest>>

GlobOk ==
    /\ bpc = "start"
    /\ \E vf \in GlobLists(videos_dir) :
         /\ vf # << >>
         /\ video_files' = vf
    /\ all_metadata' = << >>
    /\ vidx' = 1
    /\ bpc' = "loop"
    /\ UNCHANGED <<videos_dir, dumped>>
    /\ UNCHANGED <<evars, batchRest>>

\* frame_metadata = self.extract_frames_from_video(video_path): the call starts
CallExtract ==
    /\ bpc = "loop"
    /\ vidx <= Len(video_files)
    /\ video_path' = video_files[vidx]
    /\ frames_per_second' = None
    /\ max_frames' = None
    /\ epc' = "call"
    /\ bpc' = "extracting"
    /\ UNCHANGED <<clip_model, frame_interval, frames_to_extract, frame_count,
                   processed_count, frame_metadata, description, uuid_next, frames_dir>>
    /\ UNCHANGED <<videos_dir, video_files, vidx, all_metadata, dumped>>
    /\ UNCHANGED batchRest

\* the mapping starts anew with every video
Accumulate_LastVideoOnly(all, fm) ==
    [id \in {fm[i].id : i \in 1..Len(fm)} |->
        fm[CHOOSE i \in 1..Len(fm) : fm[i].id = id]]

\* for metadata in frame_metadata: all_metadata[metadata["id"]] = metadata
Accumulate(all, fm) ==
    LET new == {fm[i].id : i \in 1..Len(fm)}
        last(id) == CHOOSE i \in 1..Len(fm) :
                       /\ fm[i].id = id
                       /\ \A j \in 1..Len(fm) : fm[j].id = id => j <= i
    IN [id \in DOMAIN all \cup new |-> IF id \in new THEN fm[last(id)] ELSE all[id]]

\* the call returned: its records are added and the loop goes to the next video
Collect ==
    /\ bpc = "extracting"
    /\ epc = "returned"
    /\ all_metadata' = Accumulate(all_metadata, frame_metadata)
    /\ vidx' = vidx + 1
    /\ bpc' = "loop"
    /\ epc' = "idle"
    /\ UNCHANGED <<video_path, frames_per_second, max_frames, clip_model,
                   frame_interval, frames_to_extract, frame_count,
                   processed_count, frame_metadata, description, uuid_next, frames_dir>>
    /\ UNCHANGED <<videos_dir, video_files, dumped>>
    /\ UNCHANGED batchRest

\* the call raised: nothing in process_all_videos catches it
Propagate ==
    /\ bpc = "extracting"
    /\ epc = "raised"
    /\ bpc' = "raised"
    /\ UNCHANGED <<videos_dir, video_files, vidx, all_metadata, dumped>>
    /\ UNCHANGED <<evars, batchRest>>

\* the keys of a dict in insertion order; ids are handed out in increasing order
RECURSIVE DictOrder(_)
DictOrder(K) ==
    IF K = {} THEN << >>
    ELSE LET m == CHOOSE x \in K : \A y \in K : x <= y
         IN <<m>> \o DictOrder(K \ {m})

\* with open(metadata_path, 'w') as f: the file is created or truncated
OpenSnapshot ==
    /\ bpc = "loop"
    /\ vidx > Len(video_files)
    /\ metadata_json' = [exists |-> TRUE, body |-> << >>, closed |-> FALSE]
    /\ dumped' = 0
    /\ bpc' = "dump"
    /\ UNCHANGED <<videos_dir, video_files, vidx, all_metadata, prior_json>>
    /\ UNCHANGED <<evars, svars, collection, ivars>>

\* json.dump(all_metadata, f, indent=2): the next entry reaches the file
DumpEntry ==
    /\ bpc = "dump"
    /\ dumped < Cardinality(DOMAIN all_metadata)
    /\ metadata_json' =
         [metadata_json EXCEPT !.body =
             Append(@, all_metadata[DictOrder(DOMAIN all_metadata)[dumped + 1]])]
    /\ dumped' = dumped + 1
    /\ UNCHANGED <<bpc, videos_dir, video_files, vidx, all_metadata, prior_json>>
    /\ UNCHANGED <<evars, svars, collection, ivars>>

\* the closing brace is written and the file closed; return all_metadata
CloseSnapshot ==
    /\ bpc = "dump"
    /\ dumped = Cardinality(DOMAIN all_metadata)
    /\ metadata_json' = [metadata_json EXCEPT !.closed = TRUE]
    /\ bpc' = "done"
    /\ UNCHANGED <<videos_dir, video_files, vidx, all_metadata, dumped, prior_json>>
    /\ UNCHANGED <<evars, svars, collection, ivars>>

----------------------------------------------------------------------------
\* SearchService.__init__

\* json.load(f) of the snapshot file: the dict id -> record of a complete document
SnapshotMapping(file) ==
    LET b == file.body
    IN [id \in {b[i].id : i \in 1..Len(b)} |->
            b[CHOOSE i \in 1..Len(b) : b[i].id = id]]

\* client.get_or_create_collection(...)
GetOrCreate(coll) == IF coll.exists THEN coll ELSE [exists |-> TRUE, entries |-> << >>]

\* no metadata.json: self.frame_metadata stays {}
ServiceInitMissing ==
    /\ spc = "new"
    /\ ~metadata_json.exists
    /\ collection' = GetOrCreate(collection)
    /\ svc_frame_metadata' = << >>
    /\ spc' = "ready"
    /\ UNCHANGED <<limit, hits, frame_results, response>>
    /\ UNCHANGED <<evars, bvars, fvars, ivars>>

\* metadata.json holds a complete JSON document
ServiceInitLoad ==
    /\ spc = "new"
    /\ metadata_json.exists
    /\ metadata_json.closed
    /\ collection' = GetOrCreate(collection)
    /\ svc_frame_metadata' = SnapshotMapping(metadata_json)
    /\ spc' = "ready"
    /\ UNCHANGED <<limit, hits, frame_results, response>>
    /\ UNCHANGED <<evars, bvars, fvars, ivars>>

\* metadata.json is empty or cut short: json.load raises JSONDecodeError
ServiceInitFail ==
    /\ spc = "new"
    /\ metadata_json.exists
    /\ ~metadata_json.closed
    /\ collection' = GetOrCreate(collection)
    /\ spc' = "failed"
    /\ UNCHANGED <<svc_frame_metadata, limit, hits, frame_results, response>>
    /\ UNCHANGED <<evars, bvars, fvars, ivars>>

----------------------------------------------------------------------------
\* One run of process_all_videos, with a SearchService starting at any moment

MaxVideos      == 2   \* files in the videos directory
MaxBatchFrames == 2   \* frames of a video of the batch

DirNames ==
    {<<"a", ".mp4">>, <<"b", ".mkv">>, <<"a", ".avi">>, <<"a", ".txt">>}

\* what a file of the directory can be: unopenable; without frames; played at
\* the target rate; at twice the target rate; with one frame less than its
\* container reports; with no frame rate reported
FileKinds ==
    {[openable |-> FALSE, fps |-> 1, total |-> MaxBatchFrames, nframes |-> MaxBatchFrames],
     [openable |-> TRUE,  fps |-> 1, total |-> 0, nframes |-> 0],
     [openable |-> TRUE,  fps |-> 1, total |-> MaxBatchFrames, nframes |-> MaxBatchFrames],
     [openable |-> TRUE,  fps |-> 2, total |-> MaxBatchFrames, nframes |-> MaxBatchFrames],
     [openable |-> TRUE,  fps |-> 1, total |-> MaxBatchFrames, nframes |-> MaxBatchFrames - 1],
     [openable |-> TRUE,  fps |-> 0, total |-> MaxBatchFrames, nframes |-> MaxBatchFrames]}

\* the directories with the files named N
DirsOf(N) ==
    {{VideoFile(nm[1], nm[2], k[nm].openable, k[nm].fps, k[nm].total, k[nm].nframes) : nm \in N} :
        k \in [N -> FileKinds]}

Directories ==
    UNION {DirsOf(N) : N \in {M \in SUBSET DirNames : Cardinality(M) <= MaxVideos}}

\* a snapshot left by an earlier run: one frame of a.mp4
PriorRecord == BaseMetadata(0, VideoFile("a", ".mp4", TRUE, 1, 1, 1), 0, 0)
PriorSnapshot == [exists |-> TRUE, body |-> <<PriorRecord>>, closed |-> TRUE]

InitBatch ==
    /\ ExtractIdle
    /\ clip_model \in ClipModels
    /\ uuid_next = 1
    /\ bpc = "start"
    /\ videos_dir \in Directories
    /\ video_files = << >> /\ vidx = 0 /\ all_metadata = << >> /\ dumped = 0
    /\ metadata_json \in {NoSnapshot, PriorSnapshot}
    /\ prior_json = metadata_json
    /\ frames_dir = IF metadata_json.exists
                      THEN ImWrite(<< >>, PriorRecord.filename, PriorRecord.id)
                      ELSE << >>
    /\ spc = "new" /\ svc_frame_metadata = << >> /\ limit = 0
    /\ hits = << >> /\ frame_results = << >> /\ response = NoResponse
    /\ collection = NoCollection
    /\ IndexIdle

NextBatch ==
    \/ GlobEmpty \/ GlobOk \/ CallExtract
    \/ OpenFail \/ OpenOk \/ LoopExit \/ ReadFail \/ SkipFrame
    \/ SelectFrame \/ SelectRaise \/ Release
    \/ Collect \/ Propagate
    \/ OpenSnapshot \/ DumpEntry \/ CloseSnapshot
    \/ ServiceInitMissing \/ ServiceInitLoad \/ ServiceInitFail

SpecBatch == InitBatch /\ [][NextBatch]_vars

----------------------------------------------------------------------------
\* index_frames

\* A file stem here is a sequence of characters, so that the replacement of
\* separators is computed.  video_name.replace("_", " ").replace("-", " ")
NormalizeName(stem) ==
    [i \in 1..Len(stem) |-> IF stem[i] \in {"_", "-"} THEN " " ELSE stem[i]]

\* doc_text: the description if present, "Video: <name>", two fixed phrases.
\* Each element is a sequence of pieces of text.
DocText(frame_data) ==
    (IF "description" \in DOMAIN frame_data THEN << <<frame_data.description>> >> ELSE << >>)
      \o << <<"Video: ">> \o NormalizeName(frame_data.video_filename[1]),
            <<"Frame from video content">>, <<"Scene from video">> >>

\* document = " ".join(doc_text)
BuildDocument(frame_data) == DocText(frame_data)

\* not document.strip(): every piece of the joined text is blank
DocumentBlank(document) ==
    \A i \in 1..Len(document) : \A j \in 1..Len(document[i]) : document[i][j] \in {"", " "}

\* the metadatas entry of a record
FilterMetadata(frame_data) ==
    [video_filename |-> frame_data.video_filename,
     frame_number |-> frame_data.frame_number,
     timestamp |-> frame_data.timestamp]

\* the ids the loop keeps, in the order of metadata.items()
RECURSIVE KeptIds(_, _)
KeptIds(md, order) ==
    IF order = << >> THEN << >>
    ELSE (IF DocumentBlank(BuildDocument(md[Head(order)])) THEN << >> ELSE <<Head(order)>>)
            \o KeptIds(md, Tail(order))

\* batch_size = 100
batch_size == 100

\* the recreate flag ignored
DeleteIfRecreate_Never(coll, flag) == coll

\* if args.recreate and the collection exists: client.delete_collection(...)
DeleteIfRecreate(coll, flag) == IF flag /\ coll.exists THEN NoCollection ELSE coll

\* collection.add(ids=..., documents=..., metadatas=...): an id the collection
\* already holds is left as it is, the others are inserted
CollectionAdd(coll, bids, bdocs, bmetas) ==
    LET new == {bids[k] : k \in 1..Len(bids)}
        at(id) == CHOOSE k \in 1..Len(bids) : bids[k] = id
    IN [coll EXCEPT !.entries =
          [id \in DOMAIN coll.entries \cup new |->
              IF id \in DOMAIN coll.entries THEN coll.entries[id]
              ELSE [document |-> bdocs[at(id)], metadata |-> bmetas[at(id)]]]]

MaxIds == 2

\* the records a metadata mapping can hold under an id
IndexStem == <<"a", "_", "b">>
IndexRecords(id) ==
    LET base == [id |-> id, filename |-> FrameFilename(IndexStem, id),
                 video_filename |-> <<IndexStem, ".mp4">>, frame_number |-> id,
                 timestamp |-> <<id, 1>>]
    IN {base} \cup {WithDescription(base, c) : c \in Captions}

\* the entry the indexer builds from a record
EntryOf(frame_data) ==
    [document |-> BuildDocument(frame_data), metadata |-> FilterMetadata(frame_data)]

\* the collection holds an id the mapping lacks, and another entry than the
\* mapping's for an id the mapping holds
Stale(coll, md) ==
    /\ \E id \in DOMAIN coll.entries : id \notin DOMAIN md
    /\ \E id \in DOMAIN coll.entries \cap DOMAIN md : coll.entries[id] # EntryOf(md[id])

\* the collection holds another entry than the mapping's for an id the mapping holds
Changed(coll, md) ==
    \E id \in DOMAIN coll.entries \cap DOMAIN md : coll.entries[id] # EntryOf(md[id])

\* the metadata mappings index_frames can be given
Mappings ==
    UNION {{m \in [K -> UNION {IndexRecords(id) : id \in K}] : \A id \in K : m[id].id = id} :
              K \in SUBSET (1..MaxIds)}

\* lines 33-93 with nothing to index: "No frames to index!"; return
IndexPrepareNone ==
    /\ ipc \in {"idle", "done"}
    /\ \E md \in Mappings, flag \in BOOLEAN :
         /\ KeptIds(md, DictOrder(DOMAIN md)) = << >>
         /\ metadata' = md
         /\ recreate' = flag
         /\ collection' = GetOrCreate(DeleteIfRecreate(collection, flag))
         /\ found_stale' = Stale(collection, md)
         /\ found_changed' = Changed(collection, md)
    /\ ids' = << >> /\ documents' = << >> /\ metadatas' = << >>
    /\ batch_i' = 0
    /\ ipc' = "done"
    /\ UNCHANGED <<evars, bvars, fvars, svars>>

\* lines 33-93: the collection is dropped if asked, got or created, and the
\* three lists are prepared
IndexPrepare ==
    /\ ipc \in {"idle", "done"}
    /\ \E md \in Mappings, flag \in BOOLEAN :
         LET kept == KeptIds(md, DictOrder(DOMAIN md)) IN
         /\ kept # << >>
         /\ metadata' = md
         /\ recreate' = flag
         /\ collection' = GetOrCreate(DeleteIfRecreate(collection, flag))
         /\ ids' = kept
         /\ documents' = [k \in 1..Len(kept) |-> BuildDocument(md[kept[k]])]
         /\ metadatas' = [k \in 1..Len(kept) |-> FilterMetadata(md[kept[k]])]
         /\ found_stale' = Stale(collection, md)
         /\ found_changed' = Changed(collection, md)
    /\ batch_i' = 0
    /\ ipc' = "batches"
    /\ UNCHANGED <<evars, bvars, fvars, svars>>

\* one turn of: for i in range(0, len(ids), batch_size)
IndexBatch ==
    /\ ipc = "batches"
    /\ batch_i < Len(ids)
    /\ LET batch_end == Min(batch_i + batch_size, Len(ids))
       IN collection' = CollectionAdd(collection,
                                      SubSeq(ids, batch_i + 1, batch_end),
                                      SubSeq(documents, batch_i + 1, batch_end),
                                      SubSeq(metadatas, batch_i + 1, batch_end))
    /\ batch_i' = batch_i + batch_size
    /\ UNCHANGED <<ipc, metadata, recreate, ids, documents, metadatas, found_stale, found_changed>>
    /\ UNCHANGED <<evars, bvars, fvars, svars>>

\* the loop is over: "Indexed n frames"
IndexFinish ==
    /\ ipc = "batches"
    /\ ~(batch_i < Len(ids))
    /\ ipc' = "done"
    /\ UNCHANGED <<metadata, recreate, ids, documents, metadatas, batch_i, found_stale,
                   found_changed>>
    /\ UNCHANGED <<evars, bvars, fvars, svars, collection>>

InitIndex ==
    /\ ExtractIdle /\ clip_model = FALSE /\ uuid_next = 1 /\ frames_dir = << >>
    /\ BatchIdle
    /\ SnapshotIdle
    /\ ServiceIdle
    /\ IndexIdle

NextIndex == IndexPrepareNone \/ IndexPrepare \/ IndexBatch \/ IndexFinish

SpecIndex == InitIndex /\ [][NextIndex]_vars

----------------------------------------------------------------------------
\* SearchService.search and the route search_frames

\* A distance d stands for d / DistScale; a similarity s for s / (2 * DistScale)
DistScale == 2
MaxDist   == 5     \* distances range over 0..MaxDist
Distances == 0..MaxDist

\* the clamp min(similarity, 2.0) left out
Similarity_NoClamp(d) ==
    IF d > DistScale THEN 2 * DistScale - d ELSE 2 * d

\* similarity = float(distance); if similarity > 1.0: 1.0 - min(similarity, 2.0) / 2.0
Similarity(d) ==
    IF d > DistScale THEN 2 * DistScale - Min(d, 2 * DistScale) ELSE 2 * d

\* the lists of n different elements of S
Arrangements(S, n) ==
    {p \in [1..n -> S] : \A i, j \in 1..n : p[i] = p[j] => i = j}

\* collection.query(query_texts=[query], n_results=n): the n nearest entries,
\* fewer when the collection holds fewer, nearest first
CollectionQuery(coll, n) ==
    LET k == Min(n, Cardinality(DOMAIN coll.entries))
    IN {[i \in 1..k |-> [id |-> p[i], distance |-> d[i]]] :
           p \in Arrangements(DOMAIN coll.entries, k),
           d \in {e \in [1..k -> Distances] : \A i, j \in 1..k : i <= j => e[i] <= e[j]}}

\* one result too many asked of the collection
SearchHits_OneMore(coll, lim) == CollectionQuery(coll, lim + 1)

\* results = self.collection.query(query_texts=[query], n_results=limit)
SearchHits(coll, lim) == CollectionQuery(coll, lim)

\* FrameResponse(image_url=..., video_filename=..., frame_number=..., similarity_score=...)
FrameResponse(md, sim) ==
    [image_url |-> md.filename, video_filename |-> md.video_filename,
     frame_number |-> md.frame_number, similarity_score |-> sim]

\* if frame_id in self.frame_metadata
Known(fm, frame_id) == frame_id \in DOMAIN fm

\* for i, frame_id in enumerate(results['ids'][0]): ... frame_results.append(...)
RECURSIVE SearchLoop(_, _, _, _)
SearchLoop(fm, hs, i, acc) ==
    IF i > Len(hs) THEN acc
    ELSE SearchLoop(fm, hs, i + 1,
                    IF Known(fm, hs[i].id)
                      THEN Append(acc, FrameResponse(fm[hs[i].id], Similarity(hs[i].distance)))
                      ELSE acc)

\* the results put in front of the list instead of appended
Search_Prepend(fm, hs) ==
    LET r == SearchLoop(fm, hs, 1, << >>)
    IN [i \in 1..Len(r) |-> r[Len(r) + 1 - i]]

\* SearchService.search, given what the collection returned
Search(fm, hs) == IF Len(hs) > 0 THEN SearchLoop(fm, hs, 1, << >>) ELSE << >>

\* limit: int = Query(4, ge=1, le=20)
LimitMin == 1
LimitMax == 20

\* result.image_url = f"{base_url}/frames/{result.image_url}"
AbsoluteUrl(result) == [result EXCEPT !.image_url = <<"/frames/", @>>]

\* SearchResponse(results=results, count=len(results), query=query)
SearchResponse(results) ==
    [results |-> [i \in 1..Len(results) |-> AbsoluteUrl(results[i])],
     count |-> Len(results)]

MaxEntries == 3    \* ids of the corpus range over 1..MaxEntries

\* the limits a request is tried with: up to one more than the corpus can
\* hold, and the largest the route accepts
Limits == {l \in LimitMin..LimitMax : l <= MaxEntries + 1 \/ l = LimitMax}

\* GET /api/search: the request is validated and searched, the response built
SearchRequest ==
    /\ spc = "ready"
    /\ response = NoResponse
    /\ \E lim \in Limits :
         \E hs \in SearchHits(collection, lim) :
            /\ limit' = lim
            /\ hits' = hs
            /\ frame_results' = Search(svc_frame_metadata, hs)
            /\ response' = SearchResponse(frame_results')
    /\ UNCHANGED <<spc, svc_frame_metadata, collection>>
    /\ UNCHANGED <<evars, bvars, fvars, ivars>>

\* the response is sent; the handler is ready for the next request
SearchReply ==
    /\ spc = "ready"
    /\ response # NoResponse
    /\ response' = NoResponse
    /\ limit' = 0 /\ hits' = << >> /\ frame_results' = << >>
    /\ UNCHANGED <<spc, svc_frame_metadata, collection>>
    /\ UNCHANGED <<evars, bvars, fvars, ivars>>

\* the record of the corpus with a given id
CorpusRecord(id) ==
    BaseMetadata(id, VideoFile(<<"a">>, ".mp4", TRUE, 1, MaxEntries, MaxEntries), id - 1, id - 1)

CorpusEntry(id) == EntryOf(CorpusRecord(id))

\* a snapshot and a collection, each over any ids: either may lack ids of the other
InitSearch ==
    /\ ExtractIdle /\ clip_model = FALSE /\ uuid_next = 1 /\ frames_dir = << >>
    /\ BatchIdle
    /\ IndexIdle
    /\ \E K \in SUBSET (1..MaxEntries) :
         \/ K = {} /\ metadata_json = NoSnapshot
         \/ metadata_json = [exists |-> TRUE, closed |-> TRUE,
                             body |-> [i \in 1..Cardinality(K) |-> CorpusRecord(DictOrder(K)[i])]]
    /\ prior_json = metadata_json
    /\ \E K \in SUBSET (1..MaxEntries) :
         \/ K = {} /\ collection = NoCollection
         \/ collection = [exists |-> TRUE, entries |-> [id \in K |-> CorpusEntry(id)]]
    /\ spc = "new" /\ svc_frame_metadata = << >> /\ limit = 0
    /\ hits = << >> /\ frame_results = << >> /\ response = NoResponse

NextSearch == ServiceInitMissing \/ ServiceInitLoad \/ SearchRequest \/ SearchReply

SpecSearch == InitSearch /\ [][NextSearch]_vars

----------------------------------------------------------------------------
\* Claims about the sampler (SpecSampler)

NativeRate == video_path.fps
TargetRate == TargetFps(frames_per_second)

\* decoded positions of the records the call returned
SelectedPositions == {frame_metadata[i].frame_number : i \in 1..Len(frame_metadata)}

\* {0, interval, 2*interval, ...} truncated by the stream length and by the cap
ExpectedPositions(interval, streamLen, cap) ==
    {k * interval : k \in {j \in 0..streamLen :
                             /\ j * interval < streamLen
                             /\ (cap # None => j < cap[1])}}

\* C1: when a call returns and F_target <= F_native, the interval is
\* floor(F_native / F_target) >= 1 and the selected decoded positions are
\* exactly the multiples of the interval, truncated only by the length of the
\* decode stream and by max_frames.
C1_SelectedAreMultiples ==
    (epc = "returned" /\ TargetRate <= NativeRate) =>
        /\ frame_interval = NativeRate \div TargetRate
        /\ frame_interval >= 1
        /\ SelectedPositions =
             ExpectedPositions(frame_interval, video_path.nframes, max_frames)

\* C2: a call given max_frames = N returns at most N records.
C2_AtMostMaxFrames ==
    (epc = "returned" /\ max_frames # None) => Len(frame_metadata) <= max_frames[1]

\* What the code does select: the multiples of the interval below the smaller
\* of the reported and the decodable frame count, capped only by a non-zero
\* max_frames.
Sampler_ActualSelection ==
    epc = "returned" =>
        SelectedPositions =
            ExpectedPositions(frame_interval,
                              Min(video_path.total, video_path.nframes),
                              IF Truthy(max_frames) THEN max_frames ELSE None)

\* The cap holds for every N >= 1.
Sampler_PositiveCap ==
    (epc = "returned" /\ Truthy(max_frames)) => Len(frame_metadata) <= max_frames[1]

\* C1 restricted to videos whose reported frame count is the stream length
\* and to a cap that is None or >= 1.
Sampler_C1Restricted ==
    (video_path.total = video_path.nframes /\ max_frames # Some(0))
        => C1_SelectedAreMultiples

\* C1 with the cap unset: fails only on the reported frame count
Sampler_C1NoCap == max_frames = None => C1_SelectedAreMultiples

\* C1 with reported = decodable: fails only on max_frames = 0
Sampler_C1Exact == video_path.total = video_path.nframes => C1_SelectedAreMultiples

----------------------------------------------------------------------------
\* Claims about process_all_videos and the snapshot (SpecBatch)

RunEnded == bpc \in {"done", "raised"}

SnapshotRecords == {metadata_json.body[i] : i \in 1..Len(metadata_json.body)}

\* the decoded positions extraction takes from an opened video
PositionsOf(v) ==
    ExpectedPositions(FrameInterval(v.fps, FRAMES_PER_SECOND), Min(v.total, v.nframes), None)

\* C5: when one video of the batch cannot be opened, the run does not abort:
\* it ends normally with the snapshot written, and the snapshot holds the
\* frames of every other video of the batch that opens and decodes.
C5_FailureIsolated ==
    (RunEnded /\ \E i \in 1..Len(video_files) : ~video_files[i].openable) =>
        /\ bpc = "done"
        /\ metadata_json.exists /\ metadata_json.closed
        /\ \A i \in 1..Len(video_files) :
             (video_files[i].openable /\ video_files[i].fps # 0) =>
                \A pos \in PositionsOf(video_files[i]) :
                    \E r \in SnapshotRecords :
                        /\ r.video_filename = VideoFilename(video_files[i])
                        /\ r.frame_number = pos

\* C6: after a run, no two distinct records of the snapshot have the same
\* filename, and the image under a record's filename is the one that record wrote.
C6_FilenamesCollisionFree ==
    bpc = "done" =>
        /\ \A r1, r2 \in SnapshotRecords : r1.id # r2.id => r1.filename # r2.filename
        /\ \A r \in SnapshotRecords : frames_dir[r.filename] = r.id

\* what a reader gets from a complete snapshot file, or from none
Loaded(file) == IF file.exists THEN SnapshotMapping(file) ELSE << >>

\* C10: a SearchService that loads the snapshot while a run is in progress
\* never fails, and holds either the complete prior snapshot or the complete
\* new one.
C10_ReaderSeesWholeSnapshot ==
    /\ spc # "failed"
    /\ spc = "ready" =>
         \/ svc_frame_metadata = Loaded(prior_json)
         \/ bpc \in {"dump", "done"} /\ svc_frame_metadata = all_metadata

----------------------------------------------------------------------------
\* Claims about index_frames (SpecIndex)

\* the ids of the records of the mapping whose document is not empty
NonEmptyIds(md) == {id \in DOMAIN md : ~DocumentBlank(BuildDocument(md[id]))}

\* C9: after a run with the recreate flag, whatever runs came before, the ids
\* of the collection are exactly the ids of the records with a non-empty
\* document, its size is their number, and every entry is the one built from
\* the current record: nothing of the prior collection remains.
C9_RecreateLeavesExactlyCurrent ==
    (ipc = "done" /\ recreate) =>
        /\ collection.exists
        /\ DOMAIN collection.entries = NonEmptyIds(metadata)
        /\ Cardinality(DOMAIN collection.entries) = Cardinality(NonEmptyIds(metadata))
        /\ \A id \in DOMAIN collection.entries :
             collection.entries[id] = EntryOf(metadata[id])

\* a recreate run has finished on a collection that held an id the new mapping
\* lacks and an id the new mapping holds with another document
C9_Witness ==
    /\ ipc = "done" /\ recreate /\ found_stale
    /\ DOMAIN collection.entries # {}

----------------------------------------------------------------------------
\* Claims about search (SpecSearch)

Searched == response # NoResponse

\* the hits whose id the loaded metadata mapping holds, in the collection's order
LiveHits == SelectSeq(hits, LAMBDA h : h.id \in DOMAIN svc_frame_metadata)

One == 2 * DistScale

\* C3: the similarity is non-increasing in the distance, and a distance of 0
\* has similarity 1.
C3_SimilarityMonotone ==
    (Searched /\ Len(frame_results) = Len(LiveHits)) =>
        /\ \A i, j \in 1..Len(LiveHits) :
             LiveHits[i].distance <= LiveHits[j].distance =>
                frame_results[i].similarity_score >= frame_results[j].similarity_score
        /\ \A i \in 1..Len(LiveHits) :
             LiveHits[i].distance = 0 => frame_results[i].similarity_score = One

C7_AtMostLimit ==
    Searched =>
        /\ limit \in LimitMin..LimitMax
        /\ Len(frame_results) <= limit
        /\ Len(frame_results) <= Cardinality(DOMAIN collection.entries)
        /\ Len(frame_results) <= Cardinality(DOMAIN svc_frame_metadata)
        /\ response.count = Len(frame_results)

\* a search over a corpus larger than the limit filled the limit
C7_Witness ==
    /\ Searched
    /\ limit < Cardinality(DOMAIN collection.entries)
    /\ Len(frame_results) = limit
    /\ limit >= 2

\* C8: the results are the collection's hits without those whose id the
\* metadata mapping lacks, in the collection's order: the k-th result is built
\* from the record and the distance of the k-th remaining hit.
C8_ResultsAreLiveHitsInOrder ==
    Searched =>
        /\ Len(frame_results) = Len(LiveHits)
        /\ \A k \in 1..Len(LiveHits) :
             frame_results[k] =
                FrameResponse(svc_frame_metadata[LiveHits[k].id], Similarity(LiveHits[k].distance))

\* a stale hit ranked between two hits the mapping holds, which were returned
\* in the collection's order although the id order is the reverse
C8_Witness ==
    /\ Searched
    /\ Len(hits) = 3 /\ Len(frame_results) = 2
    /\ hits[2].id \notin DOMAIN svc_frame_metadata
    /\ hits[1].id > hits[3].id
    /\ frame_results[1].image_url = svc_frame_metadata[hits[1].id].filename
    /\ frame_results[2].image_url = svc_frame_metadata[hits[3].id].filename

----------------------------------------------------------------------------
\* Claims about captioning (SpecSampler)

HasCaption(r) == "description" \in DOMAIN r

\* the fields of a record other than the caption
WithoutCaption(r) == [k \in DOMAIN r \ {"description"} |-> r[k]]

\* C11: without a captioning model no record has a caption, and a frame whose
\* captioning raised has none; captioning never makes the call raise, and
\* every record has the id, filename and frame index (and the other fields)
\* that depend on the video and the arguments alone, whatever captioning did.
C11_CaptionFailureIsHarmless ==
    /\ ~clip_model => \A i \in 1..Len(frame_metadata) : ~HasCaption(frame_metadata[i])
    /\ (Len(frame_metadata) > 0 /\ description = None) =>
          ~HasCaption(frame_metadata[Len(frame_metadata)])
    /\ \A i \in 1..Len(frame_metadata) :
          /\ WithoutCaption(frame_metadata[i]) =
                BaseMetadata(i, video_path, i - 1, (i - 1) * frame_interval)
          /\ HasCaption(frame_metadata[i]) => frame_metadata[i].description \in Captions
    /\ epc = "raised" => (~video_path.openable \/ video_path.fps = 0)
    /\ epc = "returned" =>
          Len(frame_metadata) =
             Cardinality(ExpectedPositions(frame_interval,
                                           Min(video_path.total, video_path.nframes),
                                           IF Truthy(max_frames) THEN max_frames ELSE None))

\* a call with a model loaded has returned two records or more: the first
\* frame was captioned, captioning the last one raised
C11_Witness ==
    /\ epc = "returned" /\ clip_model
    /\ Len(frame_metadata) >= 2
    /\ HasCaption(frame_metadata[1])
    /\ description = None
    /\ ~HasCaption(frame_metadata[Len(frame_metadata)])

\* a call without a model has returned two records or more
C11_WitnessNoModel ==
    /\ epc = "returned" /\ ~clip_model
    /\ Len(frame_metadata) >= 2

----------------------------------------------------------------------------
\* Claims about the way index_frames writes (SpecIndex)

\* the ids the batch loop has submitted so far
SubmittedIds == {ids[k] : k \in 1..Min(batch_i, Len(ids))}

\* every id is submitted once, in consecutive slices of batch_size
Index_BatchesPartition ==
    ipc \in {"batches", "done"} =>
        /\ batch_i % batch_size = 0
        /\ \A j, k \in 1..Len(ids) : ids[j] = ids[k] => j = k
        /\ SubmittedIds \subseteq DOMAIN collection.entries
        /\ ipc = "done" => SubmittedIds = NonEmptyIds(metadata)

\* C12: after a run every record with a non-empty document has its entry in
\* the collection under its id, with the document and the filter metadata
\* built from the current record, also when the id was there before; the ids
\* go to the collection in consecutive batches of at most 100, each id once.
C12_IndexUpserts ==
    /\ ipc = "done" =>
          \A id \in NonEmptyIds(metadata) :
              /\ id \in DOMAIN collection.entries
              /\ collection.entries[id] = EntryOf(metadata[id])
    /\ Index_BatchesPartition

\* What the code does: an id gets the entry of the current record only if the
\* collection the run found (after the recreate, if any) did not hold it; an
\* entry that was there stays as it was.
Index_AddKeepsExisting ==
    /\ Index_BatchesPartition
    /\ (ipc = "done" /\ (recreate \/ ~found_changed)) =>
          \A id \in NonEmptyIds(metadata) : collection.entries[id] = EntryOf(metadata[id])
    /\ (ipc = "done" /\ found_changed /\ ~recreate) =>
          \E id \in NonEmptyIds(metadata) : collection.entries[id] # EntryOf(metadata[id])

----------------------------------------------------------------------------
\* Claims about the moment the snapshot is written (SpecBatch)

\* the ids handed out to the frames this run has extracted
ThisRunIds == 1..(uuid_next - 1)

\* the records of the snapshot that come from one video
RecordsOf(v) == {r \in SnapshotRecords : r.video_filename = VideoFilename(v)}

\* C13: the snapshot file is written once, after the last video of the run
\* has been processed; once written it holds exactly one entry per frame the
\* run extracted, over all its videos, under the frame's id, and nothing of
\* the prior snapshot; a run that stops before the write leaves the prior
\* snapshot as it was.
C13_SnapshotWrittenOnceAtEnd ==
    /\ bpc \in {"start", "loop", "extracting", "raised"} => metadata_json = prior_json
    /\ bpc \in {"dump", "done"} =>
          /\ video_files # << >> /\ vidx = Len(video_files) + 1
          /\ metadata_json.exists
          /\ DOMAIN all_metadata = ThisRunIds
    /\ bpc = "dump" =>
          /\ ~metadata_json.closed
          /\ Len(metadata_json.body) = dumped
          /\ \A k \in 1..dumped : metadata_json.body[k] = all_metadata[k]
    /\ bpc = "done" =>
          /\ metadata_json.closed
          /\ Len(metadata_json.body) = Cardinality(ThisRunIds)
          /\ {r.id : r \in SnapshotRecords} = ThisRunIds
          /\ \A r \in SnapshotRecords : r = all_metadata[r.id]
          /\ SnapshotMapping(metadata_json) = all_metadata
          /\ \A i \in 1..Len(video_files) :
                Cardinality(RecordsOf(video_files[i])) =
                    Cardinality(PositionsOf(video_files[i]))
          /\ prior_json.exists =>
                \A k \in 1..Len(prior_json.body) : prior_json.body[k] \notin SnapshotRecords

\* a run over two videos with frames has replaced a prior snapshot
C13_Witness ==
    /\ bpc = "done"
    /\ prior_json = PriorSnapshot
    /\ Len(video_files) = 2
    /\ \A i \in 1..2 : RecordsOf(video_files[i]) # {}
    /\ metadata_json # prior_json

\* a run has stopped at its second video, with the records of the first in
\* memory and a prior snapshot on disk
C13_WitnessStopped ==
    /\ bpc = "raised"
    /\ vidx = 2
    /\ all_metadata # << >>
    /\ prior_json = PriorSnapshot

----------------------------------------------------------------------------
\* Claims about the order of the records of one pass (SpecSampler)

\* the call is in or past its loop
InPass == epc \in {"loop", "release", "returned", "raised"} /\ frame_interval >= 1

\* C14: at every moment of a pass the records made so far carry the filename
\* sequence numbers 0, 1, 2, ... in the order of selection, without gap or
\* repeat; the record with number k has frame_number k * interval, the count
\* of the decoded frames before it, skipped ones included; frame_number is
\* strictly increasing along the pass.
C14_SequenceAndIndexInStep ==
    /\ Len(frame_metadata) > 0 => InPass
    /\ InPass =>
          /\ Len(frame_metadata) = processed_count
          /\ \A i \in 1..Len(frame_metadata) :
                /\ frame_metadata[i].filename = FrameFilename(video_path.stem, i - 1)
                /\ frame_metadata[i].frame_number = (i - 1) * frame_interval
                /\ frame_metadata[i].frame_number <= frame_count
          /\ \A i, j \in 1..Len(frame_metadata) :
                i < j => frame_metadata[i].frame_number < frame_metadata[j].frame_number
          /\ \A pos \in 0..(frame_count - 1) :
                pos % frame_interval = 0 => pos \in SelectedPositions

\* two frames are selected, with skipped frames between them and after them
C14_Witness ==
    /\ epc = "loop"
    /\ frame_interval >= 2
    /\ Len(frame_metadata) >= 2
    /\ frame_count % frame_interval # 0
    /\ frame_metadata[2].frame_number = frame_interval

====
